---- MODULE Spec2Model ----
(***************************************************************************)
(* A model of epub-utils/parse_epubs.py: the section slicer of parse_epub  *)
(* (TOC loop and spine fallback), _build_toc_entries, _normalize_text,     *)
(* _slugify, the media resolver and the output writer.                     *)
(*                                                                         *)
(* A content document is modelled by the direct children of its body:      *)
(* node <<href, k>> is the k-th top-level body child of document href, and *)
(* node <<href, 0>> is the raw markup of a document that has no tree.      *)
(* A rendered text is modelled by the sequence of nodes rendered into it;  *)
(* every top-level child renders to non-empty text, so a text is empty     *)
(* exactly when its node sequence is empty.                                *)
(***************************************************************************)
EXTENDS Integers, Sequences, FiniteSets, TLC

VARIABLES
    \* parse_epub: section slicing
    docs, toc_entries, pc, idx, sections,
    \* _build_toc_entries
    toc_items, nav_pos, entries, order,
    \* the text of one section: rendered parts, chunks, final text
    raw_parts, chunks, section_text, text_pc,
    \* _slugify
    slug_value, slug_result, slug_pc,
    \* media extraction: extract_media_href and resolve_image
    media_all, media_pc, media_idx, extracted_images, extracted_count,
    copy_log, warnings, resolves, last_call,
    \* the output directory over two runs of parse_epub
    epub, fs, run_no, out_pc, style_header_lines, first_fs,
    \* main: the batch loop
    outcomes, epub_paths, main_idx, failures, attempted, exit_code, main_pc,
    \* a TocEntry that starts at a heading of a single document
    body_levels, body_top, next_fragment, rendered_nodes, heading_pc,
    \* _render_rich_from_nodes
    rich_nodes, rich_chunks, rich_pos, rich_result, rich_pc,
    \* _HtmlToMarkdown: the parser's fields and the last event it handled
    md_lines, md_heading_level, md_heading_chunks, md_ignore_depth, md_events,
    md_last,
    \* one media request on a fresh book: its input and its outcome
    href_request, href_outcome, href_pc

parse_vars == <<docs, toc_entries, pc, idx, sections>>

nav_vars == <<toc_items, nav_pos, entries, order>>

text_vars == <<raw_parts, chunks, section_text, text_pc>>

slug_vars == <<slug_value, slug_result, slug_pc>>

media_vars == <<media_all, media_pc, media_idx, extracted_images,
                extracted_count, copy_log, warnings, resolves, last_call>>

out_vars == <<epub, fs, run_no, out_pc, style_header_lines, first_fs>>

main_vars ==
    <<outcomes, epub_paths, main_idx, failures, attempted, exit_code, main_pc>>

heading_vars == <<body_levels, body_top, next_fragment, rendered_nodes, heading_pc>>

rich_vars == <<rich_nodes, rich_chunks, rich_pos, rich_result, rich_pc>>

plain_vars ==
    <<md_lines, md_heading_level, md_heading_chunks, md_ignore_depth, md_events,
      md_last>>

href_vars == <<href_request, href_outcome, href_pc>>

vars == <<parse_vars, nav_vars, text_vars, slug_vars, media_vars, out_vars, main_vars, heading_vars, rich_vars, plain_vars, href_vars>>

-----------------------------------------------------------------------------
(* Bounds *)

MaxToc == 2
MaxChildren == 2
MaxNavNodes == 3
MaxText == 5
MaxSlug == 3
MaxResolves == 2
MaxSections == 2
MaxBooks == 3
MaxBody == 4
MaxLevel == 2
MaxNodes == 2
MaxEvents == 4
MaxSrc == 4

-----------------------------------------------------------------------------
(* Strings are sequences of one-character strings *)

Whitespace == {" ", "\n", "\r", "\t"}

RECURSIVE lstrip(_, _)
lstrip(s, chars) ==
    IF s # <<>> /\ Head(s) \in chars THEN lstrip(Tail(s), chars) ELSE s

RECURSIVE rstrip(_, _)
rstrip(s, chars) ==
    IF s # <<>> /\ s[Len(s)] \in chars
    THEN rstrip(SubSeq(s, 1, Len(s) - 1), chars) ELSE s

strip(s, chars) == rstrip(lstrip(s, chars), chars)

\* str.split(sep) for a one-character sep
RECURSIVE split(_, _)
split(s, sep) ==
    IF \A i \in 1..Len(s) : s[i] # sep THEN <<s>>
    ELSE LET i == CHOOSE k \in 1..Len(s) :
                      s[k] = sep /\ \A j \in 1..(k - 1) : s[j] # sep
         IN  <<SubSeq(s, 1, i - 1)>> \o split(SubSeq(s, i + 1, Len(s)), sep)

\* sep.join(parts)
RECURSIVE join(_, _)
join(parts, sep) ==
    IF parts = <<>> THEN <<>>
    ELSE IF Len(parts) = 1 THEN parts[1]
    ELSE parts[1] \o sep \o join(Tail(parts), sep)

endswith(s, suffix) ==
    /\ Len(suffix) <= Len(s)
    /\ SubSeq(s, Len(s) - Len(suffix) + 1, Len(s)) = suffix

startswith(s, prefix) ==
    /\ Len(prefix) <= Len(s)
    /\ SubSeq(s, 1, Len(prefix)) = prefix

\* the loop of posixpath.normpath over the components
RECURSIVE normpath_comps(_, _, _)
normpath_comps(comps, new_comps, initial_slashes) ==
    IF comps = <<>> THEN new_comps
    ELSE LET comp == Head(comps)
             kept ==
                 IF comp = <<>> \/ comp = <<".">> THEN new_comps
                 ELSE IF \/ comp # <<".", ".">>
                         \/ (initial_slashes = 0 /\ new_comps = <<>>)
                         \/ (new_comps # <<>>
                             /\ new_comps[Len(new_comps)] = <<".", ".">>)
                 THEN Append(new_comps, comp)
                 ELSE IF new_comps # <<>>
                 THEN SubSeq(new_comps, 1, Len(new_comps) - 1)
                 ELSE new_comps
         IN  normpath_comps(Tail(comps), kept, initial_slashes)

\* posixpath.normpath
normpath(path) ==
    IF path = <<>> THEN <<".">>
    ELSE LET initial_slashes ==
                 IF path[1] # "/" THEN 0
                 ELSE IF /\ Len(path) >= 2 /\ path[2] = "/"
                         /\ ~(Len(path) >= 3 /\ path[3] = "/")
                 THEN 2 ELSE 1
             comps == normpath_comps(split(path, "/"), <<>>, initial_slashes)
             joined == [i \in 1..initial_slashes |-> "/"] \o join(comps, <<"/">>)
         IN  IF joined = <<>> THEN <<".">> ELSE joined

\* posixpath.basename
basename(path) ==
    LET parts == split(path, "/") IN parts[Len(parts)]

\* without the final lstrip("./")
normalize_href_no_lstrip(value) ==
    LET stripped == strip(value, Whitespace)
        slashed == [i \in 1..Len(stripped) |->
                       IF stripped[i] = "\\" THEN "/" ELSE stripped[i]]
        noquery == split(slashed, "?")[1]
    IN  normpath(noquery)

normalize_href(value) ==
    LET stripped == strip(value, Whitespace)
        slashed == [i \in 1..Len(stripped) |->
                       IF stripped[i] = "\\" THEN "/" ELSE stripped[i]]
        noquery == split(slashed, "?")[1]
    IN  lstrip(normpath(noquery), {".", "/"})

\* str.partition("#"): fragment <<>> stands for None (`fragment or None`)
NoFragment == <<>>

split_target(target) ==
    LET parts == split(target, "#")
    IN  [href |-> parts[1],
         fragment |-> IF Len(parts) = 1 THEN NoFragment
                      ELSE join(Tail(parts), <<"#">>)]

upper(c) ==
    CASE c = "a" -> "A" [] c = "b" -> "B" [] c = "p" -> "P"
      [] c = "i" -> "I" [] c = "m" -> "M" [] c = "t" -> "T" [] OTHER -> c

Letters == {"a", "b", "p", "i", "m", "t", "A", "B", "P", "I", "M", "T"}

\* Path(value).name: the last component that is neither empty nor "."
path_name(value) ==
    LET comps == SelectSeq(split(value, "/"),
                           LAMBDA c : c # <<>> /\ c # <<".">>)
    IN  IF comps = <<>> THEN <<>> ELSE comps[Len(comps)]

\* Path(value).stem: the name up to its last dot, unless that dot is the
\* first or the last character
stem(value) ==
    LET name == path_name(value)
        dots == {i \in 1..Len(name) : name[i] = "."}
        last == CHOOSE i \in dots : \A j \in dots : j <= i
    IN  IF dots = {} THEN name
        ELSE IF 1 < last /\ last < Len(name) THEN SubSeq(name, 1, last - 1)
        ELSE name

\* str.title(): a letter is upper-cased when no letter precedes it
title(s) ==
    [i \in 1..Len(s) |->
        IF i = 1 \/ s[i - 1] \notin Letters THEN upper(s[i]) ELSE s[i]]

\* re.sub(r"[_-]+", " ", base)
RECURSIVE dashes_to_space(_)
dashes_to_space(s) ==
    IF s = <<>> THEN <<>>
    ELSE IF Head(s) \in {"_", "-"}
    THEN <<" ">> \o dashes_to_space(lstrip(s, {"_", "-"}))
    ELSE <<Head(s)>> \o dashes_to_space(Tail(s))

prettify_section_name(value) ==
    LET base == strip(dashes_to_space(stem(value)), Whitespace)
    IN  IF base # <<>> THEN title(base) ELSE value

-----------------------------------------------------------------------------
(* _resolve_href and _build_toc_entries *)

\* the keys of manifest_by_href: a, b, t (spine documents), p, i/p and g
\* (images)
manifest_by_href ==
    { <<"a">>, <<"b">>, <<"t">>, <<"p">>, <<"i", "/", "p">>, <<"g">> }

\* manifest_by_basename: the hrefs whose basename no other href shares
\* spine_entries, by href, in reading order; an href is a sequence of
\* characters, and <<"a">>, <<"b">>, <<"t">> stand for a.xhtml, b.xhtml, t.xhtml
spine_entries == << <<"a">>, <<"b">>, <<"t">> >>

spine_hrefs_set == {spine_entries[i] : i \in 1..Len(spine_entries)}

spine_index_by_href(href) ==
    CHOOSE i \in 1..Len(spine_entries) : spine_entries[i] = href

manifest_by_basename(manifest) ==
    {h \in manifest : \A g \in manifest : basename(g) = basename(h) => g = h}

NoMatch == <<>>

\* `while normalized.startswith("../")`: the first exact match, or the rest
RECURSIVE strip_parent_refs(_, _)
strip_parent_refs(normalized, manifest) ==
    IF startswith(normalized, <<".", ".", "/">>)
    THEN LET rest == SubSeq(normalized, 4, Len(normalized))
         IN  IF rest \in manifest THEN [found |-> TRUE, value |-> rest]
             ELSE strip_parent_refs(rest, manifest)
    ELSE [found |-> FALSE, value |-> normalized]

resolve_href(href, manifest, by_basename) ==
    IF href = <<>> THEN NoMatch
    ELSE LET normalized == normalize_href(href)
             looped == strip_parent_refs(normalized, manifest)
             base == basename(looped.value)
             unique == {h \in by_basename : basename(h) = base}
             matches == {key \in manifest : endswith(key, <<"/">> \o base)}
         IN  IF normalized \in manifest THEN normalized
             ELSE IF looped.found THEN looped.value
             ELSE IF unique # {} THEN CHOOSE h \in unique : TRUE
             ELSE IF Cardinality(matches) = 1 THEN CHOOSE key \in matches : TRUE
             ELSE NoMatch

\* The navigation items a TOC is built from: label and target.
NavItems ==
    { [label |-> <<"x">>, target |-> <<"a">>],
      [label |-> <<>>, target |-> <<".", ".", "/", "a", "#", "s", "1">>],
      [label |-> <<"y">>, target |-> <<"t", "/", "b">>],
      [label |-> <<"z">>, target |-> <<"x", "/", "p">>],
      [label |-> <<"m">>, target |-> <<"m">>] }

\* A navigation tree of n nodes: node j is a child of node parent[j] (0: a
\* top-level item) and the children of a node are ordered by their number.
NavTrees ==
    UNION {{[n |-> n, parent |-> par, item |-> it] :
               par \in {f \in [1..n -> 0..n] : \A j \in 1..n : f[j] < j},
               it \in [1..n -> NavItems]} : n \in 0..MaxNavNodes}

RECURSIVE SortedSeq(_)
SortedSeq(S) ==
    IF S = {} THEN <<>>
    ELSE LET m == CHOOSE x \in S : \A y \in S : x <= y
         IN  <<m>> \o SortedSeq(S \ {m})

\* getattr(item, "children", None)
children_of(toc, i) == SortedSeq({j \in 1..toc.n : toc.parent[j] = i})

RECURSIVE flatten_toc_items_postorder(_, _)
flatten_toc_items_postorder(toc, items) ==
    IF items = <<>> THEN <<>>
    ELSE flatten_toc_items_postorder(toc, children_of(toc, Head(items)))
         \o <<Head(items)>>
         \o flatten_toc_items_postorder(toc, Tail(items))

RECURSIVE flatten_toc_items(_, _)
flatten_toc_items(toc, items) ==
    IF items = <<>> THEN <<>>
    ELSE <<Head(items)>>
         \o flatten_toc_items(toc, children_of(toc, Head(items)))
         \o flatten_toc_items(toc, Tail(items))

\* the items `for item in _flatten_toc_items(toc_items)` iterates over
FlatItems == flatten_toc_items(toc_items, children_of(toc_items, 0))

\* `resolved` of the loop body for navigation node i
resolved_href(i) ==
    resolve_href(split_target(strip(toc_items.item[i].target, Whitespace)).href,
                 manifest_by_href, manifest_by_basename(manifest_by_href))

NavIdle ==
    /\ toc_items = [n |-> 0, parent |-> <<>>, item |-> <<>>]
    /\ nav_pos = 0
    /\ entries = <<>>
    /\ order = 0

TextIdle ==
    /\ raw_parts = <<>>
    /\ chunks = <<>>
    /\ section_text = <<>>
    /\ text_pc = "idle"

SlugIdle ==
    /\ slug_value = <<>>
    /\ slug_result = <<>>
    /\ slug_pc = "idle"

NoCall ==
    [op |-> "none", src |-> <<>>, href |-> <<>>, result |-> <<>>,
     warned |-> FALSE, was_cached |-> FALSE,
     before |-> [images |-> <<>>, count |-> 0, log |-> <<>>]]

MediaIdle ==
    /\ media_all = FALSE
    /\ media_pc = "idle"
    /\ media_idx = 1
    /\ extracted_images = <<>>
    /\ extracted_count = 0
    /\ copy_log = <<>>
    /\ warnings = <<>>
    /\ resolves = 0
    /\ last_call = NoCall

OutIdle ==
    /\ epub = <<>>
    /\ fs = <<>>
    /\ run_no = 0
    /\ out_pc = "idle"
    /\ style_header_lines = <<>>
    /\ first_fs = <<>>

MainIdle ==
    /\ outcomes = <<>>
    /\ epub_paths = <<>>
    /\ main_idx = 0
    /\ failures = 0
    /\ attempted = <<>>
    /\ exit_code = 0
    /\ main_pc = "idle"

HeadingIdle ==
    /\ body_levels = <<>>
    /\ body_top = <<>>
    /\ next_fragment = <<>>
    /\ rendered_nodes = <<>>
    /\ heading_pc = "idle"

RichIdle ==
    /\ rich_nodes = <<>>
    /\ rich_chunks = <<>>
    /\ rich_pos = 0
    /\ rich_result = <<>>
    /\ rich_pc = "idle"

NoEvent == [kind |-> "none", data |-> <<>>, lines |-> <<>>]

PlainIdle ==
    /\ md_lines = <<>>
    /\ md_heading_level = 0
    /\ md_heading_chunks = <<>>
    /\ md_ignore_depth = 0
    /\ md_events = 0
    /\ md_last = NoEvent

HrefIdle ==
    /\ href_request = <<>>
    /\ href_outcome = <<>>
    /\ href_pc = "idle"

ParseIdle ==
    /\ docs = <<>>
    /\ toc_entries = <<>>
    /\ pc = "idle"
    /\ idx = 1
    /\ sections = <<>>

InitToc ==
    /\ toc_items \in NavTrees
    /\ nav_pos = 1
    /\ entries = <<>>
    /\ order = 0
    /\ ParseIdle /\ TextIdle /\ SlugIdle /\ MediaIdle /\ OutIdle /\ MainIdle /\ HeadingIdle /\ RichIdle /\ PlainIdle /\ HrefIdle

\* an iteration that ends in `continue`: the href does not resolve to a
\* spine href
BuildTocEntriesSkip ==
    /\ nav_pos \in 1..Len(FlatItems)
    /\ LET resolved == resolved_href(FlatItems[nav_pos])
       IN  resolved = NoMatch \/ resolved \notin spine_hrefs_set
    /\ nav_pos' = nav_pos + 1
    /\ UNCHANGED <<toc_items, entries, order, parse_vars, text_vars, slug_vars, media_vars, out_vars, main_vars, heading_vars, rich_vars, plain_vars, href_vars>>

\* an iteration that appends a TocEntry; `item` records the navigation node
\* the entry was built from
BuildTocEntriesAppend ==
    /\ nav_pos \in 1..Len(FlatItems)
    /\ LET i == FlatItems[nav_pos]
           resolved == resolved_href(i)
           target == split_target(strip(toc_items.item[i].target, Whitespace))
           label == strip(toc_items.item[i].label, Whitespace)
       IN  /\ resolved # NoMatch /\ resolved \in spine_hrefs_set
           /\ entries' = Append(entries,
                  [label |-> IF label = <<>> THEN prettify_section_name(resolved)
                             ELSE label,
                   href |-> resolved, fragment |-> target.fragment,
                   order |-> order, item |-> i])
    /\ order' = order + 1
    /\ nav_pos' = nav_pos + 1
    /\ UNCHANGED <<toc_items, parse_vars, text_vars, slug_vars, media_vars, out_vars, main_vars, heading_vars, rich_vars, plain_vars, href_vars>>

\* `return entries`
BuildTocEntriesReturn ==
    /\ nav_pos = Len(FlatItems) + 1
    /\ nav_pos' = 0
    /\ UNCHANGED <<toc_items, entries, order, parse_vars, text_vars, slug_vars, media_vars, out_vars, main_vars, heading_vars, rich_vars, plain_vars, href_vars>>

NextToc == BuildTocEntriesSkip \/ BuildTocEntriesAppend \/ BuildTocEntriesReturn

SpecToc == InitToc /\ [][NextToc]_vars

-----------------------------------------------------------------------------
(* Claims about _build_toc_entries *)

\* the navigation nodes from the top-level item down to node i
RECURSIVE NavPath(_)
NavPath(i) ==
    IF toc_items.parent[i] = 0 THEN <<i>>
    ELSE Append(NavPath(toc_items.parent[i]), i)

\* node i is visited before node j in pre-order: i is an ancestor of j, or
\* the paths part at siblings of which the one towards i is further left
NavBefore(i, j) ==
    LET p == NavPath(i)
        q == NavPath(j)
    IN  /\ i # j
        /\ \/ Len(p) < Len(q) /\ SubSeq(q, 1, Len(p)) = p
           \/ \E k \in 1..Len(p) :
                  /\ k <= Len(q)
                  /\ SubSeq(p, 1, k - 1) = SubSeq(q, 1, k - 1)
                  /\ p[k] < q[k]

\* the targets of NavItems whose href resolves to a spine href
SpineTargets ==
    { <<"a">>, <<".", ".", "/", "a", "#", "s", "1">>, <<"t", "/", "b">> }

\* C5: _build_toc_entries returns exactly the navigation nodes whose href
\* resolves to a spine href, in pre-order (parent before children, left to
\* right), whatever unresolvable nodes lie between them, and the `order`
\* values of the entries are strictly increasing.
TocEntriesArePreorderOfResolvable ==
    /\ \A k, l \in 1..Len(entries) :
           k < l => entries[k].order < entries[l].order
    /\ nav_pos = 0 =>
           LET kept == {i \in 1..toc_items.n :
                           toc_items.item[i].target \in SpineTargets}
           IN  /\ Len(entries) = Cardinality(kept)
               /\ {entries[k].item : k \in 1..Len(entries)} = kept
               /\ \A k \in 1..Len(entries) :
                      entries[k].href \in spine_hrefs_set
               /\ \A k, l \in 1..Len(entries) :
                      k < l => NavBefore(entries[k].item, entries[l].item)

\* a returned list for a tree whose first item is unresolvable and has a
\* resolvable child, followed by a resolvable second top-level item
TocEntriesWitness ==
    /\ nav_pos = 0
    /\ toc_items.n = 3
    /\ toc_items.parent = <<0, 0, 1>>
    /\ toc_items.item[1].target = <<"m">>
    /\ Len(entries) = 2
    /\ entries[1].item = 3
    /\ entries[2].item = 2

-----------------------------------------------------------------------------
(* _normalize_text and the text of a section *)

LF == "\n"

CR == "\r"

RECURSIVE StringsUpTo(_, _)
StringsUpTo(alphabet, n) ==
    IF n = 0 THEN {<<>>}
    ELSE LET shorter == StringsUpTo(alphabet, n - 1)
         IN  shorter \cup {Append(w, c) : w \in shorter, c \in alphabet}

\* text.replace("\r\n", "\n")
RECURSIVE replace_crlf(_)
replace_crlf(t) ==
    IF t = <<>> THEN <<>>
    ELSE IF Len(t) >= 2 /\ t[1] = CR /\ t[2] = LF
    THEN <<LF>> \o replace_crlf(SubSeq(t, 3, Len(t)))
    ELSE <<t[1]>> \o replace_crlf(Tail(t))

\* text.replace("\r", "\n")
replace_cr(t) == [i \in 1..Len(t) |-> IF t[i] = CR THEN LF ELSE t[i]]

collapse_newlines_off(t) == t

\* re.sub(r"\n{3,}", "\n\n", text)
RECURSIVE collapse_newlines(_)
collapse_newlines(t) ==
    IF t = <<>> THEN <<>>
    ELSE IF t[1] = LF
    THEN LET rest == lstrip(t, {LF})
             run == Len(t) - Len(rest)
         IN  (IF run >= 3 THEN <<LF, LF>> ELSE SubSeq(t, 1, run))
             \o collapse_newlines(rest)
    ELSE <<t[1]>> \o collapse_newlines(Tail(t))

normalize_text(t) ==
    strip(collapse_newlines(replace_cr(replace_crlf(t))), Whitespace)

\* _render_markdown on text that holds no markup: "" for blank input, else
\* the normalized text
render_markdown(html) ==
    IF strip(html, Whitespace) = <<>> THEN <<>> ELSE normalize_text(html)

\* the texts a document or node range can hand to _render_markdown
RawTexts == StringsUpTo({"a", " ", LF, CR}, MaxText)

\* the texts of a second document of the section's range
SecondParts == { <<>>, <<LF, "b">>, <<"b", CR, LF>> }

InitText ==
    /\ raw_parts \in {<<first, second>> : first \in RawTexts, second \in SecondParts}
    /\ chunks = <<>>
    /\ section_text = <<>>
    /\ text_pc = "render"
    /\ ParseIdle /\ NavIdle /\ SlugIdle /\ MediaIdle /\ OutIdle /\ MainIdle /\ HeadingIdle /\ RichIdle /\ PlainIdle /\ HrefIdle

\* TOC path: one iteration of the loop over the spine range (lines 953-959)
RenderPart ==
    /\ text_pc = "render"
    /\ LET part == render_markdown(raw_parts[Len(chunks) + 1])
       IN  chunks' = Append(chunks, part)
    /\ text_pc' = IF Len(chunks) + 1 = Len(raw_parts) THEN "join" ELSE "render"
    /\ UNCHANGED <<raw_parts, section_text, parse_vars, nav_vars, slug_vars, media_vars, out_vars, main_vars, heading_vars, rich_vars, plain_vars, href_vars>>

\* TOC path: text = _normalize_text("\n\n".join(chunks)); `if text:`; an
\* empty part is not among the chunks (`if part:`)
JoinChunks ==
    /\ text_pc = "join"
    /\ section_text' = normalize_text(join(SelectSeq(chunks, LAMBDA c : c # <<>>),
                                   <<LF, LF>>))
    /\ text_pc' = IF section_text' # <<>> THEN "emitted" ELSE "skipped"
    /\ UNCHANGED <<raw_parts, chunks, parse_vars, nav_vars, slug_vars, media_vars, out_vars, main_vars, heading_vars, rich_vars, plain_vars, href_vars>>

\* spine fallback: text = _render_full_for_mode(...); `if not text: continue`
RenderFull ==
    /\ text_pc = "render"
    /\ chunks = <<>>
    /\ section_text' = render_markdown(raw_parts[1])
    /\ text_pc' = IF section_text' # <<>> THEN "emitted" ELSE "skipped"
    /\ UNCHANGED <<raw_parts, chunks, parse_vars, nav_vars, slug_vars, media_vars, out_vars, main_vars, heading_vars, rich_vars, plain_vars, href_vars>>

NextText == RenderPart \/ JoinChunks \/ RenderFull

SpecText == InitText /\ [][NextText]_vars

\* C6: the text of an emitted chapter holds no run of three or more
\* newlines and no carriage return, and starts and ends with a character
\* that is not whitespace.
EmittedTextIsNormalized ==
    text_pc = "emitted" =>
        /\ section_text # <<>>
        /\ \A i \in 1..Len(section_text) : section_text[i] # CR
        /\ \A i \in 1..(Len(section_text) - 2) :
               ~(/\ section_text[i] = LF /\ section_text[i + 1] = LF
                 /\ section_text[i + 2] = LF)
        /\ section_text[1] \notin Whitespace
        /\ section_text[Len(section_text)] \notin Whitespace

\* a run of three newlines between two words has become one blank line
EmittedTextWitness ==
    /\ text_pc = "emitted"
    /\ raw_parts[1] = <<"a", LF, LF, LF, "a">>
    /\ section_text = <<"a", LF, LF, "a">>

-----------------------------------------------------------------------------
(* _slugify *)

SlugSafe == {"a", "_", ".", "-"}

\* re.sub(r"[^A-Za-z0-9._-]+", "_", value)
RECURSIVE sub_unsafe(_)
sub_unsafe(v) ==
    IF v = <<>> THEN <<>>
    ELSE IF v[1] \notin SlugSafe
    THEN LET rest == IF \A i \in 1..Len(v) : v[i] \notin SlugSafe THEN <<>>
                     ELSE SubSeq(v, CHOOSE k \in 1..Len(v) :
                                        /\ v[k] \in SlugSafe
                                        /\ \A j \in 1..(k - 1) : v[j] \notin SlugSafe,
                                 Len(v))
         IN  <<"_">> \o sub_unsafe(rest)
    ELSE <<v[1]>> \o sub_unsafe(Tail(v))

book == <<"b", "o", "o", "k">>

slugify_no_placeholder(value) ==
    strip(sub_unsafe(strip(value, Whitespace)), {"_", ".", "-"})

slugify(value) ==
    LET v == strip(sub_unsafe(strip(value, Whitespace)), {"_", ".", "-"})
    IN  IF v # <<>> THEN v ELSE book

\* titles: a letter, the three other safe characters, a blank and a
\* character outside [A-Za-z0-9._-]
SlugInputs == StringsUpTo({"a", "_", ".", "-", " ", "!"}, MaxSlug)

InitSlug ==
    /\ slug_value \in SlugInputs
    /\ slug_result = <<>>
    /\ slug_pc = "call"
    /\ ParseIdle /\ NavIdle /\ TextIdle /\ MediaIdle /\ OutIdle /\ MainIdle /\ HeadingIdle /\ RichIdle /\ PlainIdle /\ HrefIdle

Slugify ==
    /\ slug_pc = "call"
    /\ slug_result' = slugify(slug_value)
    /\ slug_pc' = "returned"
    /\ UNCHANGED <<slug_value, parse_vars, nav_vars, text_vars, media_vars, out_vars, main_vars, heading_vars, rich_vars, plain_vars, href_vars>>

NextSlug == Slugify

SpecSlug == InitSlug /\ [][NextSlug]_vars

\* C7: _slugify returns a non-empty string over [A-Za-z0-9._-]; it is the
\* placeholder "book" exactly when the input holds no letter or digit.
SlugIsSafeAndNonEmpty ==
    slug_pc = "returned" =>
        /\ slug_result # <<>>
        /\ \A i \in 1..Len(slug_result) :
               slug_result[i] \in SlugSafe \cup {"b", "o", "k"}
        /\ (\A i \in 1..Len(slug_value) : slug_value[i] # "a")
               <=> slug_result = book

\* a title of unusable characters only has become the placeholder
SlugWitness ==
    /\ slug_pc = "returned"
    /\ slug_value = <<"!", ".", " ">>
    /\ slug_result = book

-----------------------------------------------------------------------------
(* Media extraction: extract_media_href and resolve_image *)

\* doc.package_href, the directory of the package inside the archive
package_href == <<"o">>

\* epub_zip.namelist(): the spine documents, the images p and i/p, and a
\* file z that is no manifest item; the manifest image g is not in the archive
zip_namelist ==
    { <<"o", "/", "a">>, <<"o", "/", "b">>, <<"o", "/", "p">>,
      <<"o", "/", "i", "/", "p">>, <<"o", "/", "z">> }

\* the hrefs of the manifest items of an image/ media type, in manifest order
manifest_images == << <<"p">>, <<"i", "/", "p">>, <<"g">> >>

book_slug == <<"k">>

\* the keys of _zip_namelist_map
zip_map == {lstrip(normpath(name), {".", "/"}) : name \in zip_namelist}

zip_has(path) == lstrip(normpath(path), {".", "/"}) \in zip_map

\* posixpath.join(a, b)
posix_join(a, b) ==
    IF b # <<>> /\ b[1] = "/" THEN b
    ELSE IF a = <<>> \/ a[Len(a)] = "/" THEN a \o b
    ELSE a \o <<"/">> \o b

\* posixpath.dirname(p)
dirname(path) ==
    LET slashes == {i \in 1..Len(path) : path[i] = "/"}
        head == IF slashes = {} THEN <<>>
                ELSE SubSeq(path, 1, CHOOSE i \in slashes : \A j \in slashes : j <= i)
    IN  IF head # <<>> /\ (\E i \in 1..Len(head) : head[i] # "/")
        THEN rstrip(head, {"/"}) ELSE head

lower(c) == CASE c = "D" -> "d" [] c = "A" -> "a" [] c = "T" -> "t" [] OTHER -> c

is_external_src(value) ==
    LET stripped == strip(value, Whitespace)
        lowered == [i \in 1..Len(stripped) |-> lower(stripped[i])]
    IN  \/ startswith(lowered, <<"h", "t", "t", "p", ":", "/", "/">>)
        \/ startswith(lowered, <<"h", "t", "t", "p", "s", ":", "/", "/">>)
        \/ startswith(lowered, <<"d", "a", "t", "a", ":">>)

\* f"./{book_slug}/images/{href}"
rel_path(href) ==
    <<".", "/">> \o book_slug \o <<"/", "i", "m", "a", "g", "e", "s", "/">> \o href

\* The state of one book's media cache and the outcome of a call.
MediaState(images, count, log, warns, result, warned, was_cached) ==
    [images |-> images, count |-> count, log |-> log, warns |-> warns,
     result |-> result, warned |-> warned, was_cached |-> was_cached]

extract_media_href_nocache(images, count, log, warns, href) ==
    IF ~zip_has(posix_join(package_href, href))
    THEN MediaState(images, count, log, Append(warns, href), <<>>, TRUE, FALSE)
    ELSE MediaState([h \in DOMAIN images \cup {href} |-> rel_path(h)], count + 1,
                    Append(log, href), warns, rel_path(href), FALSE, FALSE)

\* extract_media_href: result <<>> stands for None; log records the
\* write_bytes of _extract_zip_file
extract_media_href(images, count, log, warns, href) ==
    IF href \in DOMAIN images
    THEN MediaState(images, count, log, warns, images[href], FALSE, TRUE)
    ELSE IF ~zip_has(posix_join(package_href, href))
    THEN MediaState(images, count, log, Append(warns, href), <<>>, TRUE, FALSE)
    ELSE MediaState(images @@ (href :> rel_path(href)), count + 1,
                    Append(log, href), warns, rel_path(href), FALSE, FALSE)

\* `resolved` of resolve_image
resolved_src(base_href, src) ==
    normalize_href(posix_join(dirname(base_href), src))

resolve_image(images, count, log, warns, base_href, src) ==
    LET resolved == resolved_src(base_href, src)
        extracted == extract_media_href(images, count, log, warns, resolved)
    IN  IF src = <<>> \/ is_external_src(src)
        THEN MediaState(images, count, log, warns, src, FALSE, FALSE)
        ELSE IF resolved \notin manifest_by_href
                /\ ~zip_has(posix_join(package_href, resolved))
        THEN MediaState(images, count, log, warns, src, FALSE, FALSE)
        ELSE [extracted EXCEPT !.result =
                 IF extracted.result # <<>> THEN extracted.result ELSE src]

\* the src attributes of the images of the content documents
ImageSrcs ==
    { <<"p">>, <<".", "/", "p">>, <<"i", "/", "p">>, <<"g">>, <<"q">>, <<"z">>,
      <<"D", "a", "t", "a", ":", "x">>, <<>> }

\* src values that point upwards, to the root, or use backslashes
RECURSIVE SrcsUpTo(_, _)
SrcsUpTo(alphabet, n) ==
    IF n = 0 THEN {<<>>}
    ELSE LET shorter == SrcsUpTo(alphabet, n - 1)
         IN  shorter \cup {Append(w, c) : w \in shorter, c \in alphabet}

TraversalSrcs == SrcsUpTo({".", "/", "\\", "p"}, MaxSrc)

\* the hrefs of the documents that hold them
BaseHrefs == { <<"a">>, <<"i", "/", "c">> }

InitMedia ==
    /\ media_all \in BOOLEAN
    /\ media_pc = "media_all"
    /\ media_idx = 1
    /\ extracted_images = <<>>
    /\ extracted_count = 0
    /\ copy_log = <<>>
    /\ warnings = <<>>
    /\ resolves = 0
    /\ last_call = NoCall
    /\ ParseIdle /\ NavIdle /\ TextIdle /\ SlugIdle /\ OutIdle /\ MainIdle /\ HeadingIdle /\ RichIdle /\ PlainIdle /\ HrefIdle

Snapshot == [images |-> extracted_images, count |-> extracted_count,
             log |-> copy_log]

\* one iteration of `for item in manifest_list` under `if media_all:`
ExtractManifestImage ==
    /\ media_pc = "media_all"
    /\ media_all
    /\ media_idx <= Len(manifest_images)
    /\ LET href == normalize_href(manifest_images[media_idx])
           r == extract_media_href(extracted_images, extracted_count,
                                   copy_log, warnings, href)
       IN  /\ extracted_images' = r.images
           /\ extracted_count' = r.count
           /\ copy_log' = r.log
           /\ warnings' = r.warns
           /\ last_call' = [op |-> "extract_media_href", src |-> href,
                            href |-> href, result |-> r.result,
                            warned |-> r.warned, was_cached |-> r.was_cached,
                            before |-> Snapshot]
    /\ media_idx' = media_idx + 1
    /\ UNCHANGED <<media_all, media_pc, resolves,
                   parse_vars, nav_vars, text_vars, slug_vars, out_vars, main_vars, heading_vars, rich_vars, plain_vars, href_vars>>

\* the media_all loop is over or was not entered; rendering starts
StartRendering ==
    /\ media_pc = "media_all"
    /\ ~media_all \/ media_idx > Len(manifest_images)
    /\ media_pc' = "render"
    /\ UNCHANGED <<media_all, media_idx, extracted_images, extracted_count,
                   copy_log, warnings, resolves, last_call,
                   parse_vars, nav_vars, text_vars, slug_vars, out_vars, main_vars, heading_vars, rich_vars, plain_vars, href_vars>>

\* a call of resolve_image(src, alt) made while a document is rendered
ResolveImage ==
    /\ media_pc = "render"
    /\ resolves < MaxResolves
    /\ \E base_href \in BaseHrefs, src \in ImageSrcs :
           LET r == resolve_image(extracted_images, extracted_count, copy_log,
                                  warnings, base_href, src)
           IN  /\ extracted_images' = r.images
               /\ extracted_count' = r.count
               /\ copy_log' = r.log
               /\ warnings' = r.warns
               /\ last_call' = [op |-> "resolve_image", src |-> src,
                                href |-> resolved_src(base_href, src),
                                result |-> r.result, warned |-> r.warned,
                                was_cached |-> r.was_cached,
                                before |-> Snapshot]
    /\ resolves' = resolves + 1
    /\ UNCHANGED <<media_all, media_pc, media_idx,
                   parse_vars, nav_vars, text_vars, slug_vars, out_vars, main_vars, heading_vars, rich_vars, plain_vars, href_vars>>

NextMedia == ExtractManifestImage \/ StartRendering \/ ResolveImage

SpecMedia == InitMedia /\ [][NextMedia]_vars

\* C9: a non-external image src whose target is absent from the archive is
\* returned unchanged by resolve_image and a warning is emitted for it.
MissingImageKeptWithWarning ==
    (/\ last_call.op = "resolve_image"
     /\ last_call.src # <<>>
     /\ ~is_external_src(last_call.src)
     /\ ~zip_has(posix_join(package_href, last_call.href)))
        => /\ last_call.result = last_call.src
           /\ last_call.warned

\* C10: every media href is copied out of the archive at most once; a
\* request for an extracted href returns the cached path and leaves
\* extracted_images, extracted_count and the copied files as they were; and
\* extracted_count is the number of entries of extracted_images.
MediaExtractedOnce ==
    /\ \A i, j \in 1..Len(copy_log) : copy_log[i] = copy_log[j] => i = j
    /\ extracted_count = Cardinality(DOMAIN extracted_images)
    /\ DOMAIN extracted_images = {copy_log[i] : i \in 1..Len(copy_log)}
    /\ last_call.was_cached =>
           /\ last_call.href \in DOMAIN last_call.before.images
           /\ last_call.result = last_call.before.images[last_call.href]
           /\ extracted_images = last_call.before.images
           /\ extracted_count = last_call.before.count
           /\ copy_log = last_call.before.log

\* the image p, extracted for the src "p" of a.xhtml, is requested again as
\* "./p" and comes from the cache
MediaCacheWitness ==
    /\ last_call.op = "resolve_image"
    /\ last_call.src = <<".", "/", "p">>
    /\ last_call.was_cached
    /\ last_call.before.log = << <<"p">> >>
    /\ copy_log = << <<"p">> >>
    /\ ~media_all

-----------------------------------------------------------------------------
(* The output path of one media request, for any src and manifest href *)

\* A request on a book that has extracted nothing yet: an image src met in
\* the document base, or (base <<>>) a manifest href of the media_all loop.
InitHref ==
    /\ href_request \in [base : BaseHrefs \cup {<<>>}, src : TraversalSrcs]
    /\ href_outcome = <<>>
    /\ href_pc = "request"
    /\ ParseIdle /\ NavIdle /\ TextIdle /\ SlugIdle /\ MediaIdle /\ OutIdle
    /\ MainIdle /\ HeadingIdle /\ RichIdle /\ PlainIdle

\* resolve_image(src, alt) of the resolver made for the document base
HrefResolveImage ==
    /\ href_pc = "request"
    /\ href_request.base # <<>>
    /\ LET r == resolve_image(<<>>, 0, <<>>, <<>>, href_request.base,
                              href_request.src)
       IN  href_outcome' = [href |-> resolved_src(href_request.base,
                                                   href_request.src),
                            result |-> r.result, log |-> r.log]
    /\ href_pc' = "done"
    /\ UNCHANGED <<href_request, parse_vars, nav_vars, text_vars, slug_vars,
                   media_vars, out_vars, main_vars, heading_vars, rich_vars,
                   plain_vars>>

\* `normalized = _normalize_href(href)`, `extract_media_href(normalized)`
HrefExtractManifest ==
    /\ href_pc = "request"
    /\ href_request.base = <<>>
    /\ href_request.src # <<>>
    /\ LET normalized == normalize_href(href_request.src)
           r == extract_media_href(<<>>, 0, <<>>, <<>>, normalized)
       IN  href_outcome' = [href |-> normalized, result |-> r.result,
                            log |-> r.log]
    /\ href_pc' = "done"
    /\ UNCHANGED <<href_request, parse_vars, nav_vars, text_vars, slug_vars,
                   media_vars, out_vars, main_vars, heading_vars, rich_vars,
                   plain_vars>>

NextHref == HrefResolveImage \/ HrefExtractManifest

SpecHref == InitHref /\ [][NextHref]_vars

\* a path that stays below the directory it is joined to
SafeRelative(href) ==
    /\ href # <<>> => href[1] # "/"
    /\ \A i \in 1..Len(split(href, "/")) : split(href, "/")[i] # <<".", ".">>

\* C19: the normalized href of every request, and so the path below
\* <bookSlug>/images of every file extract_media_href writes, holds no ".."
\* segment and is not absolute.
ExtractedPathsStayInside ==
    href_pc = "done" =>
        /\ SafeRelative(href_outcome.href)
        /\ \A i \in 1..Len(href_outcome.log) : SafeRelative(href_outcome.log[i])

\* the src "../p" of i/c.xhtml has been extracted to images/p
ExtractedPathsWitness ==
    /\ href_pc = "done"
    /\ href_request = [base |-> <<"i", "/", "c">>, src |-> <<".", ".", "/", "p">>]
    /\ href_outcome.href = <<"p">>
    /\ href_outcome.log = << <<"p">> >>
    /\ href_outcome.result = rel_path(<<"p">>)

-----------------------------------------------------------------------------
(* The files parse_epub writes, over two runs into one output directory *)

\* A path is a directory and a name relative to it: "out" is output_dir,
\* "book" is output_dir/<book_slug>, "images" and "styles" lie under "book".
Path(dir, name) == [dir |-> dir, name |-> name]

md == <<".", "m", "d">>

\* the bytes of the archive members that are extracted
zip_read(href) == <<"b", "y", "t", "e", "s", ":">> \o href

book_title == <<"T">>

write_file_append(files, path, data) ==
    [q \in DOMAIN files \cup {path} |->
        IF q # path THEN files[q]
        ELSE IF path \in DOMAIN files THEN files[path] \o data ELSE data]

\* Path.write_bytes / Path.write_text: the file holds the data afterwards
write_file(files, path, data) ==
    [q \in DOMAIN files \cup {path} |-> IF q = path THEN data ELSE files[q]]

\* `stale.unlink()` for every stale in output_root.glob("*.md")
unlink_stale(files, dir) ==
    [q \in {r \in DOMAIN files : ~(r.dir = dir /\ endswith(r.name, md))} |->
        files[q]]

\* the extractions of one run: every image the run asks for is copied to
\* images/<href>
RECURSIVE extract_images(_, _)
extract_images(files, hrefs) ==
    IF hrefs = {} THEN files
    ELSE LET href == CHOOSE h \in hrefs : TRUE
         IN  extract_images(write_file(files, Path("images", href), zip_read(href)),
                            hrefs \ {href})

\* f"./{book_slug}/styles/{href}"
style_rel_path(href) ==
    <<".", "/">> \o book_slug \o <<"/", "s", "t", "y", "l", "e", "s", "/">> \o href

href_attr == <<"h", "r", "e", "f", "=", "\"">>

\* f'<link rel="stylesheet" href="{rel_path}">'
link_line(path) ==
    <<"<", "l", "i", "n", "k", " ", "r", "e", "l", "=", "\"", "s", "t", "y", "l", "e", "s", "h", "e", "e", "t", "\"", " ">>
    \o href_attr \o path \o <<"\"", ">">>

\* f"![{alt}]({resolved})" for an image without alt text
image_markdown(resolved) == <<"!", "[", "]", "(">> \o resolved \o <<")">>

inline_styles_css ==
    <<"i", "n", "l", "i", "n", "e", "_", "s", "t", "y", "l", "e", "s", ".", "c", "s", "s">>

\* lines 978-1009: the style header lines of the run
styles_of(b) ==
    IF b.markdown_mode # "rich" \/ (b.css_hrefs = <<>> /\ b.inline_styles = <<>>)
    THEN <<>>
    ELSE IF b.style_mode = "external"
    THEN [i \in 1..Len(b.css_hrefs) |-> link_line(style_rel_path(b.css_hrefs[i]))]
         \o (IF b.inline_styles # <<>>
             THEN <<link_line(style_rel_path(inline_styles_css))>>
             ELSE <<>>)
    ELSE <<<<"<", "s", ">">>,
           strip(join([i \in 1..Len(b.css_hrefs) |-> zip_read(b.css_hrefs[i])]
                      \o b.inline_styles, <<LF, LF>>), Whitespace),
           <<"<", "/", "s", ">">>>>

RECURSIVE write_styles(_, _, _)
write_styles(files, b, i) ==
    IF i > Len(b.css_hrefs)
    THEN IF b.inline_styles # <<>>
         THEN write_file(files, Path("styles", inline_styles_css),
                         strip(join(b.inline_styles, <<LF, LF>>), Whitespace)
                         \o <<LF>>)
         ELSE files
    ELSE write_styles(write_file(files, Path("styles", b.css_hrefs[i]),
                                 zip_read(b.css_hrefs[i])), b, i + 1)

\* base_lines (lines 1017-1023); the book has no author
base_lines(styles) ==
    << <<"#", " ">> \o book_title >>
    \o (IF styles # <<>> THEN << <<>> >> \o styles ELSE <<>>)
    \o << <<>> >>

digit(i) ==
    CASE i = 0 -> "0" [] i = 1 -> "1" [] i = 2 -> "2" [] i = 3 -> "3"
      [] i = 4 -> "4" [] i = 5 -> "5" [] i = 6 -> "6" [] i = 7 -> "7"
      [] i = 8 -> "8" [] OTHER -> "9"

\* f"{index:0{width}d}" for width 2
two_digits(index) == <<digit(index \div 10), digit(index % 10)>>

chapter_filename(index, section_title) ==
    two_digits(index) \o <<"_">>
    \o (IF strip(section_title, Whitespace) # <<>> THEN slugify(section_title)
        ELSE <<"s", "e", "c", "t", "i", "o", "n", "_">> \o two_digits(index))
    \o md

section_lines(section) ==
    << <<"#", "#", " ">> \o section.title, <<>>, section.text, <<>> >>

file_text(lines) == strip(join(lines, <<LF>>), Whitespace) \o <<LF>>

RECURSIVE write_chapters(_, _, _, _)
write_chapters(files, secs, index, styles) ==
    IF index > Len(secs) THEN files
    ELSE write_chapters(
             write_file(files,
                        Path("book", chapter_filename(index, secs[index].title)),
                        file_text(base_lines(styles) \o section_lines(secs[index]))),
             secs, index + 1, styles)

RECURSIVE all_section_lines(_)
all_section_lines(secs) ==
    IF secs = <<>> THEN <<>>
    ELSE section_lines(Head(secs)) \o all_section_lines(Tail(secs))

\* Files of an earlier conversion that may lie in the output directory.
StaleFiles ==
    { Path("book", <<"0", "9", "_", "o", "l", "d">> \o md),
      Path("out", book_slug \o md) }

BookImages == {<<"p">>, <<"i", "/", "p">>}

\* The sections the slicer hands over: titled or untitled text, or a titled
\* section that is the rendering of one image with its resolved path.
SectionSet ==
    [title : {<<"a">>, <<" ">>}, text : {<<"x">>}]
    \cup [title : {<<"a">>}, text : {image_markdown(rel_path(h)) : h \in BookImages}]

\* the images resolve_image extracted while the sections were rendered
referenced_images(secs) ==
    {h \in BookImages :
        \E i \in 1..Len(secs) : secs[i].text = image_markdown(rel_path(h))}

Books ==
    [sections : UNION {[1..n -> SectionSet] : n \in 0..MaxSections},
     images : SUBSET BookImages,
     markdown_mode : {"plain", "rich"},
     style_mode : {"inline", "external"},
     split_chapters : BOOLEAN,
     css_hrefs : {<<>>, << <<"c">> >>},
     inline_styles : {<<>>, << <<"s">> >>},
     stale : SUBSET StaleFiles]

InitOutput ==
    /\ epub \in {b \in Books : referenced_images(b.sections) \subseteq b.images}
    /\ fs = [q \in epub.stale |-> <<"o", "l", "d">>]
    /\ run_no = 1
    /\ out_pc = "media"
    /\ style_header_lines = <<>>
    /\ first_fs = <<>>
    /\ ParseIdle /\ NavIdle /\ TextIdle /\ SlugIdle /\ MediaIdle /\ MainIdle /\ HeadingIdle /\ RichIdle /\ PlainIdle /\ HrefIdle

\* the run is over: the second run starts from the files the first one left
EndOfRun(files) ==
    /\ fs' = files
    /\ style_header_lines' = <<>>
    /\ IF run_no = 1
       THEN run_no' = 2 /\ out_pc' = "media" /\ first_fs' = files
       ELSE run_no' = run_no /\ out_pc' = "done" /\ first_fs' = first_fs

\* the images extracted while the sections are rendered
RunExtractMedia ==
    /\ out_pc = "media"
    /\ fs' = extract_images(fs, epub.images)
    /\ out_pc' = "styles"
    /\ UNCHANGED <<epub, run_no, style_header_lines, first_fs,
                   parse_vars, nav_vars, text_vars, slug_vars, media_vars, main_vars, heading_vars, rich_vars, plain_vars, href_vars>>

\* lines 978-1009
RunWriteStyles ==
    /\ out_pc = "styles"
    /\ style_header_lines' = styles_of(epub)
    /\ fs' = IF /\ epub.markdown_mode = "rich"
                /\ epub.style_mode = "external"
                /\ (epub.css_hrefs # <<>> \/ epub.inline_styles # <<>>)
             THEN write_styles(fs, epub, 1) ELSE fs
    /\ out_pc' = "write"
    /\ UNCHANGED <<epub, run_no, first_fs,
                   parse_vars, nav_vars, text_vars, slug_vars, media_vars, main_vars, heading_vars, rich_vars, plain_vars, href_vars>>

\* `if not sections: return None`
RunReturnNone ==
    /\ out_pc = "write"
    /\ epub.sections = <<>>
    /\ EndOfRun(fs)
    /\ UNCHANGED <<epub, parse_vars, nav_vars, text_vars, slug_vars, media_vars, main_vars, heading_vars, rich_vars, plain_vars, href_vars>>

\* split_chapters: the stale chapter files are removed, then one file per
\* section is written
RunWriteChapters ==
    /\ out_pc = "write"
    /\ epub.sections # <<>>
    /\ epub.split_chapters
    /\ EndOfRun(write_chapters(unlink_stale(fs, "book"), epub.sections, 1,
                               style_header_lines))
    /\ UNCHANGED <<epub, parse_vars, nav_vars, text_vars, slug_vars, media_vars, main_vars, heading_vars, rich_vars, plain_vars, href_vars>>

\* one Markdown file for the book
RunWriteBook ==
    /\ out_pc = "write"
    /\ epub.sections # <<>>
    /\ ~epub.split_chapters
    /\ EndOfRun(write_file(fs, Path("out", book_slug \o md),
                           file_text(base_lines(style_header_lines)
                                     \o all_section_lines(epub.sections))))
    /\ UNCHANGED <<epub, parse_vars, nav_vars, text_vars, slug_vars, media_vars, main_vars, heading_vars, rich_vars, plain_vars, href_vars>>

NextOutput ==
    \/ RunExtractMedia \/ RunWriteStyles \/ RunReturnNone
    \/ RunWriteChapters \/ RunWriteBook

SpecOutput == InitOutput /\ [][NextOutput]_vars

\* C8: after the second of two runs with the same archive and flags the
\* output directory holds the same files with the same contents as after
\* the first run.
SecondRunLeavesSameFiles == out_pc = "done" => fs = first_fs

\* two runs in split-chapter mode with external styles, two sections and an
\* image, started over a directory that held a stale chapter file
SecondRunWitness ==
    /\ out_pc = "done"
    /\ epub.split_chapters
    /\ epub.markdown_mode = "rich" /\ epub.style_mode = "external"
    /\ epub.css_hrefs # <<>>
    /\ Len(epub.sections) = 2
    /\ epub.images # {}
    /\ epub.stale = StaleFiles
    /\ Cardinality(DOMAIN fs) = 6

\* the directory a Path lies in, as a path string; output_dir is "o"
dir_path(dir) ==
    CASE dir = "out" -> <<"o">>
      [] dir = "book" -> <<"o", "/">> \o book_slug
      [] dir = "images" -> <<"o", "/">> \o book_slug \o <<"/", "i", "m", "a", "g", "e", "s">>
      [] OTHER -> <<"o", "/">> \o book_slug \o <<"/", "s", "t", "y", "l", "e", "s">>

full_path(q) == dir_path(q.dir) \o <<"/">> \o q.name

\* the texts that follow an occurrence of `open` in t, each up to the next
\* `close` character
texts_between(t, open, close) ==
    LET starts == {i \in 1..Len(t) : startswith(SubSeq(t, i, Len(t)), open)}
        ends(i) == {j \in (i + Len(open))..Len(t) : t[j] = close}
    IN  {SubSeq(t, i + Len(open),
                (CHOOSE j \in ends(i) : \A k \in ends(i) : j <= k) - 1) :
            i \in {i \in starts : ends(i) # {}}}

\* the asset references a Markdown file holds: image targets and stylesheet
\* links
references_in(content) ==
    texts_between(content, <<"]", "(">>, ")")
    \cup texts_between(content, href_attr, "\"")

\* where a reader of the Markdown file q finds the reference
resolve_reference(q, reference) ==
    normpath(posix_join(dir_path(q.dir), reference))

MarkdownFiles ==
    {q \in DOMAIN fs : q.dir \in {"out", "book"} /\ endswith(q.name, md)}

AssetFiles == {q \in DOMAIN fs : q.dir \in {"images", "styles"}}

\* C13: every asset reference in an output Markdown file, resolved against
\* the directory of that file, names the place the asset was written to.
AssetReferencesResolve ==
    out_pc = "done" =>
        \A q \in MarkdownFiles : \A reference \in references_in(fs[q]) :
            \E asset \in AssetFiles :
                resolve_reference(q, reference) = full_path(asset)

-----------------------------------------------------------------------------
(* main: the loop over the books of the input directory *)

\* What parse_epub does with one book: it raises an Exception, returns None
\* (no sections) or returns the path it wrote.
Outcomes == {"raises", "none", "wrote"}

\* The *.epub paths under the input directory; a path is its rank in the
\* order of paths.
InputDirs == SUBSET (1..MaxBooks)

InitMain ==
    /\ \E found \in InputDirs :
          /\ outcomes \in [found -> Outcomes]
          /\ epub_paths = SortedSeq(found)
    /\ main_idx = 1
    /\ failures = 0
    /\ attempted = <<>>
    /\ exit_code = 0
    /\ main_pc = "start"
    /\ ParseIdle /\ NavIdle /\ TextIdle /\ SlugIdle /\ MediaIdle /\ OutIdle /\ HeadingIdle /\ RichIdle /\ PlainIdle /\ HrefIdle

\* `if not epub_paths: ... return 1`
MainNoBooks ==
    /\ main_pc = "start"
    /\ epub_paths = <<>>
    /\ exit_code' = 1
    /\ main_pc' = "returned"
    /\ UNCHANGED <<outcomes, epub_paths, main_idx, failures, attempted,
                   parse_vars, nav_vars, text_vars, slug_vars, media_vars, out_vars, heading_vars, rich_vars, plain_vars, href_vars>>

MainStartLoop ==
    /\ main_pc = "start"
    /\ epub_paths # <<>>
    /\ main_pc' = "loop"
    /\ UNCHANGED <<outcomes, epub_paths, main_idx, failures, attempted, exit_code,
                   parse_vars, nav_vars, text_vars, slug_vars, media_vars, out_vars, heading_vars, rich_vars, plain_vars, href_vars>>

\* the loop ends at the first failure
after_failure_break(i) == Len(epub_paths) + 1

\* `continue` in the except clause, and the end of the loop body
after_failure(i) == i + 1

\* parse_epub raises: `failures += 1`, `continue`
MainParseRaises ==
    /\ main_pc = "loop"
    /\ main_idx <= Len(epub_paths)
    /\ outcomes[epub_paths[main_idx]] = "raises"
    /\ attempted' = Append(attempted, epub_paths[main_idx])
    /\ failures' = failures + 1
    /\ main_idx' = after_failure(main_idx)
    /\ UNCHANGED <<outcomes, epub_paths, exit_code, main_pc,
                   parse_vars, nav_vars, text_vars, slug_vars, media_vars, out_vars, heading_vars, rich_vars, plain_vars, href_vars>>

\* parse_epub returns None: `failures += 1`
MainParseNone ==
    /\ main_pc = "loop"
    /\ main_idx <= Len(epub_paths)
    /\ outcomes[epub_paths[main_idx]] = "none"
    /\ attempted' = Append(attempted, epub_paths[main_idx])
    /\ failures' = failures + 1
    /\ main_idx' = main_idx + 1
    /\ UNCHANGED <<outcomes, epub_paths, exit_code, main_pc,
                   parse_vars, nav_vars, text_vars, slug_vars, media_vars, out_vars, heading_vars, rich_vars, plain_vars, href_vars>>

\* parse_epub returns a path
MainParseWrote ==
    /\ main_pc = "loop"
    /\ main_idx <= Len(epub_paths)
    /\ outcomes[epub_paths[main_idx]] = "wrote"
    /\ attempted' = Append(attempted, epub_paths[main_idx])
    /\ main_idx' = main_idx + 1
    /\ UNCHANGED <<outcomes, epub_paths, failures, exit_code, main_pc,
                   parse_vars, nav_vars, text_vars, slug_vars, media_vars, out_vars, heading_vars, rich_vars, plain_vars, href_vars>>

exit_code_of_zero(count) == 0

\* `return 0 if failures == 0 else 2`
exit_code_of(count) == IF count = 0 THEN 0 ELSE 2

MainReturn ==
    /\ main_pc = "loop"
    /\ main_idx > Len(epub_paths)
    /\ exit_code' = exit_code_of(failures)
    /\ main_pc' = "returned"
    /\ UNCHANGED <<outcomes, epub_paths, main_idx, failures, attempted,
                   parse_vars, nav_vars, text_vars, slug_vars, media_vars, out_vars, heading_vars, rich_vars, plain_vars, href_vars>>

NextMain ==
    \/ MainNoBooks \/ MainStartLoop \/ MainParseRaises \/ MainParseNone
    \/ MainParseWrote \/ MainReturn

\* main is one sequential loop: a step that can be taken is taken
SpecMain == InitMain /\ [][NextMain]_vars /\ WF_vars(NextMain)

Failed(path) == outcomes[path] # "wrote"

\* the books attempted so far are the first books of the sorted batch, and
\* the failure count is the number of them that raised or returned None
AttemptsArePrefix ==
    /\ Len(attempted) <= Len(epub_paths)
    /\ \A i \in 1..Len(attempted) : attempted[i] = epub_paths[i]
    /\ \A i \in 1..(Len(epub_paths) - 1) : epub_paths[i] < epub_paths[i + 1]
    /\ failures = Cardinality({i \in 1..Len(attempted) : Failed(attempted[i])})

\* C11: every book of the batch is attempted exactly once, one after another
\* in sorted path order; a book that raises adds one to the failure count
\* and the books after it are still attempted, so main returns after having
\* attempted the whole batch.
BatchAttemptsEveryBookOnce ==
    /\ [](AttemptsArePrefix /\ (main_pc = "returned" => attempted = epub_paths))
    /\ <>(main_pc = "returned")

\* a batch of three books whose first book raised has been attempted whole
BatchWitness ==
    /\ main_pc = "returned"
    /\ Len(epub_paths) = 3
    /\ outcomes[epub_paths[1]] = "raises"
    /\ outcomes[epub_paths[3]] = "wrote"
    /\ attempted = epub_paths
    /\ failures = 1

\* C12: the exit code of main is non-zero exactly when a book raised or
\* produced no chapter.
ExitCodeNonZeroIffBookFailed ==
    main_pc = "returned" =>
        (exit_code # 0 <=> \E i \in 1..Len(epub_paths) : Failed(epub_paths[i]))

\* C12, amended: the exit code is 1 when no EPUB file was found, 2 when a
\* book raised or produced no chapter, and 0 otherwise.
ExitCodeReflectsBatch ==
    main_pc = "returned" =>
        exit_code = IF epub_paths = <<>> THEN 1
                    ELSE IF \E i \in 1..Len(epub_paths) : Failed(epub_paths[i])
                    THEN 2 ELSE 0

\* a batch whose only failure is a book without chapters ends with code 2
ExitCodeWitness ==
    /\ main_pc = "returned"
    /\ Len(epub_paths) = 2
    /\ outcomes[epub_paths[1]] = "wrote"
    /\ outcomes[epub_paths[2]] = "none"
    /\ exit_code = 2

-----------------------------------------------------------------------------
(* Inputs of parse_epub *)

S1 == <<"s", "1">>

S2 == <<"s", "2">>

Fragments == {S1, S2}

FragmentOrNone == Fragments \cup {NoFragment}

\* A spine document: its content cannot be loaded ("unloadable"), its markup
\* does not parse ("notree"), or it parses to a body of n top-level children
\* where top[f] is the index of the top-level child holding the anchor of
\* fragment f (0: no such anchor under a top-level child).
DocShapes ==
    {[kind |-> "unloadable", n |-> 0, top |-> [f \in Fragments |-> 0]],
     [kind |-> "notree", n |-> 0, top |-> [f \in Fragments |-> 0]],
     [kind |-> "tree", n |-> 0, top |-> [f \in Fragments |-> 0]]}
    \cup {[kind |-> "tree", n |-> MaxChildren, top |-> t] :
             t \in [Fragments -> 0..MaxChildren]}

\* the documents the entries of the two-document books point to
TocHrefs == {<<"a">>, <<"b">>}

TocEntrySet == [href : TocHrefs, fragment : FragmentOrNone]

\* The lists _build_toc_entries can return: every href is a spine href, the
\* label of the i-th entry is i and its order is i - 1.
TocLists ==
    UNION {{[i \in 1..n |-> [label |-> i, href |-> e[i].href,
                              fragment |-> e[i].fragment, order |-> i - 1]] :
               e \in [1..n -> TocEntrySet]} : n \in 0..MaxToc}

-----------------------------------------------------------------------------
(* Rendering of node ranges *)

Range(s) == {s[i] : i \in 1..Len(s)}

\* children[lo:hi] of the body of href, as nodes (lo, hi: 1-based, inclusive)
Children(href, lo, hi) == [k \in 1..(hi - lo + 1) |-> <<href, lo + k - 1>>]

\* the value get_content_data returns when _load_content raises
NoContent == [href |-> <<>>, kind |-> "None", n |-> 0, top |-> [f \in Fragments |-> 0]]

get_content_data(href) ==
    IF docs[href].kind = "unloadable" THEN NoContent
    ELSE [href |-> href, kind |-> docs[href].kind, n |-> docs[href].n,
          top |-> docs[href].top]

\* _find_anchor_node followed by _top_level_body_child and children.index
top_level_body_child(content, fragment) == content.top[fragment]

extract_until_fragment_markdown_offbyone(content, end_fragment) ==
    IF content.kind # "tree" THEN <<>>
    ELSE IF top_level_body_child(content, end_fragment) = 0 THEN <<>>
    ELSE Children(content.href, 1, top_level_body_child(content, end_fragment))

extract_fragment_span_markdown(content, start_fragment, end_fragment) ==
    IF content.kind # "tree" THEN <<>>
    ELSE IF content.n = 0 THEN <<>>
    ELSE IF top_level_body_child(content, start_fragment) = 0 THEN <<>>
    ELSE LET start_idx == top_level_body_child(content, start_fragment)
             candidate == IF end_fragment = NoFragment THEN 0
                          ELSE top_level_body_child(content, end_fragment)
             end_idx == IF candidate > start_idx THEN candidate - 1
                        ELSE content.n
         IN  Children(content.href, start_idx, end_idx)

extract_from_fragment_markdown(content, start_fragment) ==
    extract_fragment_span_markdown(content, start_fragment, NoFragment)

extract_until_fragment_markdown(content, end_fragment) ==
    IF content.kind # "tree" THEN <<>>
    ELSE IF top_level_body_child(content, end_fragment) = 0 THEN <<>>
    ELSE Children(content.href, 1,
                  top_level_body_child(content, end_fragment) - 1)

\* _render_full_markdown / _render_full_rich_markdown: the whole body, or the
\* raw markup when there is no tree
render_full_for_mode(content) ==
    IF content.kind = "tree" THEN Children(content.href, 1, content.n)
    ELSE <<<<content.href, 0>>>>

render_partial_content(content, start_fragment, end_fragment) ==
    IF start_fragment # NoFragment /\ end_fragment # NoFragment
    THEN extract_fragment_span_markdown(content, start_fragment, end_fragment)
    ELSE IF start_fragment # NoFragment
    THEN extract_from_fragment_markdown(content, start_fragment)
    ELSE IF end_fragment # NoFragment
    THEN extract_until_fragment_markdown(content, end_fragment)
    ELSE render_full_for_mode(content)

-----------------------------------------------------------------------------
(* A TocEntry whose anchor is a heading, resolved within one document *)

\* The body of the document: body_levels[k] is the heading level of the k-th
\* top-level child, 0 when it is not a heading.  body_top maps the two
\* fragments to the top-level child that holds their anchor (0: none).
\* #s1 is the id of a top-level heading; next_fragment is the fragment of the
\* next TocEntry when that entry lies in the same document, else NoFragment.
InitHeading ==
    /\ \E n \in 1..MaxBody :
          /\ body_levels \in [1..n -> 0..MaxLevel]
          /\ body_top \in [Fragments -> 0..n]
    /\ body_top[S1] > 0
    /\ body_levels[body_top[S1]] > 0
    /\ next_fragment \in {NoFragment, S2}
    /\ rendered_nodes = <<>>
    /\ heading_pc = "entry"
    /\ ParseIdle /\ NavIdle /\ TextIdle /\ SlugIdle /\ MediaIdle /\ OutIdle /\ RichIdle /\ PlainIdle /\ HrefIdle
    /\ MainIdle

heading_content ==
    [href |-> <<"a">>, kind |-> "tree", n |-> Len(body_levels), top |-> body_top]

\* the part of the TOC loop for the only document of the range:
\* start_fragment is the entry's fragment, end_fragment the next entry's
RenderHeadingEntry ==
    /\ heading_pc = "entry"
    /\ rendered_nodes' = render_partial_content(heading_content, S1, next_fragment)
    /\ heading_pc' = "rendered"
    /\ UNCHANGED <<body_levels, body_top, next_fragment,
                   parse_vars, nav_vars, text_vars, slug_vars, media_vars, out_vars,
                   main_vars, rich_vars, plain_vars, href_vars>>

NextHeading == RenderHeadingEntry

SpecHeading == InitHeading /\ [][NextHeading]_vars

\* _collect_heading_section_nodes: the siblings from the heading up to the
\* next heading of the same or a higher rank
collect_heading_section_nodes(levels, start_index) ==
    LET level == levels[start_index]
        stops == {k \in (start_index + 1)..Len(levels) :
                     levels[k] > 0 /\ levels[k] <= level}
        last == IF stops = {} THEN Len(levels)
                ELSE (CHOOSE k \in stops : \A j \in stops : k <= j) - 1
    IN  [k \in 1..(last - start_index + 1) |-> start_index + k - 1]

\* C15: the chapter of an entry anchored at a heading and resolved within
\* one document is that heading and its following siblings up to the next
\* heading whose level is at most the anchor's.
HeadingChapterIsHeadingSection ==
    heading_pc = "rendered" =>
        LET section == collect_heading_section_nodes(body_levels, body_top[S1])
        IN  rendered_nodes = [k \in 1..Len(section) |-> <<<<"a">>, section[k]>>]

-----------------------------------------------------------------------------
(* _render_rich_from_nodes *)

COMPLEX_HTML_TAGS ==
    {"table", "thead", "tbody", "tr", "td", "th", "figure", "figcaption",
     "svg", "math"}

\* A top-level node of the range: its tag, whether the node itself carries a
\* non-empty style or class attribute (own), whether one of its descendants
\* does (desc), whether it holds text that is not blank (inner), and the
\* text that follows its end tag (tail).
RichNodes ==
    [tag : {"p", "table"}, own : BOOLEAN, desc : BOOLEAN, inner : BOOLEAN,
     tail : {<<>>, <<" ">>, <<"y">>}]

\* `for element in node.iter()`: the node and all its descendants
has_style_or_class(node) == node.own \/ node.desc

is_complex_tag_only(node) == node.tag \in COMPLEX_HTML_TAGS

is_complex_html_node(node) ==
    node.tag \in COMPLEX_HTML_TAGS \/ has_style_or_class(node)

\* A chunk is a sequence of pieces: the markup of node k, the text of node k
\* as the plain renderer emits it, the tail text of node k, or blank tail.
Piece(kind, k) == [kind |-> kind, node |-> k]

tail_pieces(node, k) ==
    IF node.tail = <<>> THEN <<>>
    ELSE IF strip(node.tail, Whitespace) = <<>> THEN <<Piece("blank", k)>>
    ELSE <<Piece("tail", k)>>

\* etree.tostring(node, encoding="unicode"): the element and, with_tail being
\* True by default, the text that follows it
tostring(node, k) == <<Piece("markup", k)>> \o tail_pieces(node, k)

\* _render_markdown of the serialized node: the text events of the element
\* and of its tail, blank ones dropped
render_node_markdown(node, k) ==
    SelectSeq((IF node.inner THEN <<Piece("text", k)>> ELSE <<>>)
              \o tail_pieces(node, k),
              LAMBDA piece : piece.kind # "blank")

\* `if node.tail and node.tail.strip(): chunks.append(node.tail.strip())`
tail_chunk(node, k) ==
    IF node.tail # <<>> /\ strip(node.tail, Whitespace) # <<>>
    THEN << <<Piece("tail", k)>> >> ELSE <<>>

InitRich ==
    /\ \E n \in 0..MaxNodes : rich_nodes \in [1..n -> RichNodes]
    /\ rich_chunks = <<>>
    /\ rich_pos = 1
    /\ rich_result = <<>>
    /\ rich_pc = "loop"
    /\ ParseIdle /\ NavIdle /\ TextIdle /\ SlugIdle /\ MediaIdle /\ OutIdle /\ PlainIdle /\ HrefIdle
    /\ MainIdle /\ HeadingIdle /\ PlainIdle /\ HrefIdle

\* an iteration for a complex node: its serialization is a chunk
RichRenderComplex ==
    /\ rich_pc = "loop"
    /\ rich_pos <= Len(rich_nodes)
    /\ is_complex_html_node(rich_nodes[rich_pos])
    /\ rich_chunks' = Append(rich_chunks, tostring(rich_nodes[rich_pos], rich_pos))
                      \o tail_chunk(rich_nodes[rich_pos], rich_pos)
    /\ rich_pos' = rich_pos + 1
    /\ UNCHANGED <<rich_nodes, rich_result, rich_pc, parse_vars, nav_vars, text_vars,
                   slug_vars, media_vars, out_vars, main_vars, heading_vars, plain_vars, href_vars>>

\* an iteration for any other node: the plain rendering of its serialization
\* is a chunk unless it is empty
RichRenderPlain ==
    /\ rich_pc = "loop"
    /\ rich_pos <= Len(rich_nodes)
    /\ ~is_complex_html_node(rich_nodes[rich_pos])
    /\ LET text == render_node_markdown(rich_nodes[rich_pos], rich_pos)
       IN  rich_chunks' = (IF text # <<>> THEN Append(rich_chunks, text)
                           ELSE rich_chunks)
                          \o tail_chunk(rich_nodes[rich_pos], rich_pos)
    /\ rich_pos' = rich_pos + 1
    /\ UNCHANGED <<rich_nodes, rich_result, rich_pc, parse_vars, nav_vars, text_vars,
                   slug_vars, media_vars, out_vars, main_vars, heading_vars, plain_vars, href_vars>>

\* `return _normalize_text("\n\n".join(chunks))`: the chunks as paragraphs
RichReturn ==
    /\ rich_pc = "loop"
    /\ rich_pos > Len(rich_nodes)
    /\ rich_result' = rich_chunks
    /\ rich_pc' = "returned"
    /\ UNCHANGED <<rich_nodes, rich_chunks, rich_pos, parse_vars, nav_vars, text_vars,
                   slug_vars, media_vars, out_vars, main_vars, heading_vars, plain_vars, href_vars>>

NextRich == RichRenderComplex \/ RichRenderPlain \/ RichReturn

SpecRich == InitRich /\ [][NextRich]_vars

\* node k has been serialized as raw markup
RenderedRaw(k) ==
    \E c \in 1..Len(rich_result) : \E j \in 1..Len(rich_result[c]) :
        rich_result[c][j] = Piece("markup", k)

\* C17: a top-level node is serialized as raw markup exactly when its own
\* tag is in the complex family or the node itself carries a style or class
\* attribute; a styled descendant alone does not make it complex.
ComplexIffOwnTagOrOwnAttribute ==
    rich_pc = "returned" =>
        \A k \in 1..Len(rich_nodes) :
            RenderedRaw(k) <=> (\/ rich_nodes[k].tag \in COMPLEX_HTML_TAGS
                                \/ rich_nodes[k].own)

\* C17, amended: a top-level node is serialized as raw markup exactly when
\* its own tag is in the complex family or the node or one of its
\* descendants carries a style or class attribute.
ComplexIffTagOrAnyAttribute ==
    rich_pc = "returned" =>
        \A k \in 1..Len(rich_nodes) :
            RenderedRaw(k) <=> (\/ rich_nodes[k].tag \in COMPLEX_HTML_TAGS
                                \/ rich_nodes[k].own
                                \/ rich_nodes[k].desc)

\* a paragraph whose only styled element is a descendant went out as markup,
\* next to a plain paragraph that did not
ComplexWitness ==
    /\ rich_pc = "returned"
    /\ Len(rich_nodes) = 2
    /\ rich_nodes[1].tag = "p" /\ ~rich_nodes[1].own /\ rich_nodes[1].desc
    /\ rich_nodes[2].tag = "p" /\ ~rich_nodes[2].own /\ ~rich_nodes[2].desc
    /\ rich_nodes[2].inner
    /\ RenderedRaw(1) /\ ~RenderedRaw(2)

\* the number of times the tail text of node k occurs in the output
TailOccurrences(k) ==
    Cardinality({<<c, j>> \in (1..Len(rich_result)) \X (1..2) :
                    /\ j <= Len(rich_result[c])
                    /\ rich_result[c][j] = Piece("tail", k)})

\* C20: the non-blank tail text of a top-level node occurs exactly once in
\* the output, as a paragraph of its own.
TailTextAppearsOnce ==
    rich_pc = "returned" =>
        \A k \in 1..Len(rich_nodes) :
            strip(rich_nodes[k].tail, Whitespace) # <<>> =>
                /\ TailOccurrences(k) = 1
                /\ \E c \in 1..Len(rich_result) : rich_result[c] = <<Piece("tail", k)>>

-----------------------------------------------------------------------------
(* _HtmlToMarkdown: the plain renderer as a handler of parser events *)

BLOCK_TAGS ==
    {"p", "div", "section", "article", "br", "hr", "li", "ul", "ol", "table",
     "tr", "td", "th", "blockquote"}

HEADING_TAGS == {"h1", "h2", "h3", "h4", "h5", "h6"}

IGNORE_TAGS == {"head", "title", "style", "script", "svg"}

\* int(tag[1])
heading_level_of(tag) ==
    CASE tag = "h1" -> 1 [] tag = "h2" -> 2 [] tag = "h3" -> 3
      [] tag = "h4" -> 4 [] tag = "h5" -> 5 [] OTHER -> 6

\* the tags and the text runs of the events fed to the parser
EventTags == {"p", "h2", "style", "b"}

EventData == {<<" ">>, <<"a">>, <<"a", " ", " ", "b">>, <<" ", "a", LF, "b">>}

\* _ensure_blank_line
ensure_blank_line(lines) ==
    IF lines = <<>> THEN lines
    ELSE IF lines[Len(lines)] # <<>> THEN Append(lines, <<>>)
    ELSE lines

\* md_heading_level = 0 stands for None
InitPlain ==
    /\ md_lines = <<>>
    /\ md_heading_level = 0
    /\ md_heading_chunks = <<>>
    /\ md_ignore_depth = 0
    /\ md_events = 0
    /\ md_last = NoEvent
    /\ ParseIdle /\ NavIdle /\ TextIdle /\ SlugIdle /\ MediaIdle /\ OutIdle /\ HrefIdle
    /\ MainIdle /\ HeadingIdle /\ RichIdle /\ HrefIdle

Event(kind, data) == [kind |-> kind, data |-> data, lines |-> md_lines]

HandleStarttag ==
    /\ md_events < MaxEvents
    /\ \E tag \in EventTags :
          /\ md_last' = Event("starttag", <<tag>>)
          /\ IF tag \in IGNORE_TAGS
             THEN /\ md_ignore_depth' = md_ignore_depth + 1
                  /\ UNCHANGED <<md_lines, md_heading_level, md_heading_chunks, href_vars>>
             ELSE IF md_ignore_depth # 0
             THEN UNCHANGED <<md_lines, md_heading_level, md_heading_chunks,
                              md_ignore_depth, href_vars>>
             ELSE IF tag \in HEADING_TAGS
             THEN /\ md_heading_level' = heading_level_of(tag)
                  /\ md_heading_chunks' = <<>>
                  /\ md_lines' = ensure_blank_line(md_lines)
                  /\ UNCHANGED md_ignore_depth
             ELSE /\ md_lines' = IF tag \in BLOCK_TAGS
                                 THEN ensure_blank_line(md_lines) ELSE md_lines
                  /\ UNCHANGED <<md_heading_level, md_heading_chunks,
                                 md_ignore_depth, href_vars>>
    /\ md_events' = md_events + 1
    /\ UNCHANGED <<parse_vars, nav_vars, text_vars, slug_vars, media_vars, out_vars,
                   main_vars, heading_vars, rich_vars, href_vars>>

\* "#" * level + " " + heading_text
heading_line(level, heading_text) ==
    [i \in 1..level |-> "#"] \o <<" ">> \o heading_text

HandleEndtag ==
    /\ md_events < MaxEvents
    /\ \E tag \in EventTags :
          /\ md_last' = Event("endtag", <<tag>>)
          /\ IF tag \in IGNORE_TAGS
             THEN /\ md_ignore_depth' = IF md_ignore_depth # 0
                                        THEN md_ignore_depth - 1 ELSE 0
                  /\ UNCHANGED <<md_lines, md_heading_level, md_heading_chunks, href_vars>>
             ELSE IF md_ignore_depth # 0
             THEN UNCHANGED <<md_lines, md_heading_level, md_heading_chunks,
                              md_ignore_depth, href_vars>>
             ELSE IF tag \in HEADING_TAGS
             THEN LET heading_text ==
                          strip(join(md_heading_chunks, <<" ">>), Whitespace)
                      level == IF md_heading_level # 0 THEN md_heading_level ELSE 2
                  IN  /\ md_lines' = ensure_blank_line(
                             IF heading_text # <<>>
                             THEN Append(md_lines, heading_line(level, heading_text))
                             ELSE md_lines)
                      /\ md_heading_level' = 0
                      /\ md_heading_chunks' = <<>>
                      /\ UNCHANGED md_ignore_depth
             ELSE /\ md_lines' = IF tag \in BLOCK_TAGS
                                 THEN ensure_blank_line(md_lines) ELSE md_lines
                  /\ UNCHANGED <<md_heading_level, md_heading_chunks,
                                 md_ignore_depth, href_vars>>
    /\ md_events' = md_events + 1
    /\ UNCHANGED <<parse_vars, nav_vars, text_vars, slug_vars, media_vars, out_vars,
                   main_vars, heading_vars, rich_vars, href_vars>>

\* handle_data: the lines after a text run that is not blank and lies
\* outside headings and ignored tags
data_lines(lines, data) ==
    LET text == strip(data, Whitespace)
    IN  IF lines = <<>> THEN <<text>>
        ELSE IF lines[Len(lines)] = <<>> THEN Append(lines, text)
        ELSE [lines EXCEPT ![Len(lines)] =
                 rstrip(lines[Len(lines)], Whitespace) \o <<" ">> \o text]

HandleData ==
    /\ md_events < MaxEvents
    /\ \E data \in EventData :
          /\ md_last' = Event("data", data)
          /\ IF md_ignore_depth # 0 \/ strip(data, Whitespace) = <<>>
             THEN UNCHANGED <<md_lines, md_heading_chunks, href_vars>>
             ELSE IF md_heading_level # 0
             THEN /\ md_heading_chunks' =
                         Append(md_heading_chunks, strip(data, Whitespace))
                  /\ UNCHANGED md_lines
             ELSE /\ md_lines' = data_lines(md_lines, data)
                  /\ UNCHANGED md_heading_chunks
    /\ md_events' = md_events + 1
    /\ UNCHANGED <<md_heading_level, md_ignore_depth,
                   parse_vars, nav_vars, text_vars, slug_vars, media_vars, out_vars,
                   main_vars, heading_vars, rich_vars, href_vars>>

NextPlain == HandleStarttag \/ HandleEndtag \/ HandleData

SpecPlain == InitPlain /\ [][NextPlain]_vars

\* text with its ends stripped and every inner run of whitespace replaced by
\* one space
RECURSIVE collapse_whitespace(_)
collapse_whitespace(t) ==
    LET s == strip(t, Whitespace)
    IN  IF s = <<>> THEN <<>>
        ELSE IF Len(s) >= 2 /\ s[2] \in Whitespace
        THEN <<s[1], " ">> \o collapse_whitespace(SubSeq(s, 2, Len(s)))
        ELSE <<s[1]>> \o collapse_whitespace(Tail(s))

\* C18: a text run outside headings and ignored tags goes to the output with
\* every inner run of whitespace collapsed to one space; it starts a new line
\* when there is no line or the current line is blank, and else is appended
\* to the current line after one space.
TextRunCollapsedAndAppended ==
    (/\ md_last.kind = "data"
     /\ md_ignore_depth = 0 /\ md_heading_level = 0
     /\ strip(md_last.data, Whitespace) # <<>>) =>
        LET text == collapse_whitespace(md_last.data)
            before == md_last.lines
        IN  IF before = <<>> \/ before[Len(before)] = <<>>
            THEN md_lines = Append(before, text)
            ELSE md_lines = [before EXCEPT ![Len(before)] =
                                rstrip(before[Len(before)], Whitespace)
                                \o <<" ">> \o text]

-----------------------------------------------------------------------------
(* parse_epub: the TOC loop *)

HasNext(i) == i + 1 <= Len(toc_entries)

entry_start_idx(i) == spine_index_by_href(toc_entries[i].href)

entry_end_idx(i) ==
    IF HasNext(i) THEN spine_index_by_href(toc_entries[i + 1].href)
    ELSE Len(spine_entries)

\* the end document is rendered even when the next entry has no fragment
entry_part_with_end_document(i, spine_idx) ==
    LET href == spine_entries[spine_idx]
        content_data == get_content_data(href)
        start_fragment == IF spine_idx = entry_start_idx(i)
                          THEN toc_entries[i].fragment ELSE NoFragment
        end_fragment == IF HasNext(i) /\ spine_idx = entry_end_idx(i)
                        THEN toc_entries[i + 1].fragment ELSE NoFragment
    IN  IF content_data = NoContent THEN <<>>
        ELSE render_partial_content(content_data, start_fragment, end_fragment)

\* the body of `for spine_idx in range(start_idx, end_idx + 1)` for one spine_idx
entry_part(i, spine_idx) ==
    LET href == spine_entries[spine_idx]
        content_data == get_content_data(href)
        start_fragment == IF spine_idx = entry_start_idx(i)
                          THEN toc_entries[i].fragment ELSE NoFragment
        end_fragment == IF HasNext(i) /\ spine_idx = entry_end_idx(i)
                        THEN toc_entries[i + 1].fragment ELSE NoFragment
    IN  IF content_data = NoContent THEN <<>>
        ELSE IF HasNext(i) /\ spine_idx = entry_end_idx(i)
                /\ toc_entries[i + 1].fragment = NoFragment
        THEN <<>>
        ELSE render_partial_content(content_data, start_fragment, end_fragment)

RECURSIVE entry_chunks(_, _, _)
entry_chunks(i, spine_idx, end_idx) ==
    IF spine_idx > end_idx THEN <<>>
    ELSE entry_part(i, spine_idx) \o entry_chunks(i, spine_idx + 1, end_idx)

\* `if text:` (TOC loop) and `if not text: continue` (spine fallback)
keep_section_always(text) == TRUE

keep_section(text) == text # <<>>

append_section_front(secs, s) == <<s>> \o secs

append_section(secs, s) == Append(secs, s)

\* Books of which only a.xhtml and b.xhtml can be read: the last spine
\* document cannot be loaded and no entry points to it.
Init ==
    /\ docs \in {d \in [spine_hrefs_set -> DocShapes] :
                     d[<<"t">>].kind = "unloadable"}
    /\ toc_entries \in TocLists
    /\ pc = "start"
    /\ idx = 1
    /\ sections = <<>>
    /\ NavIdle /\ TextIdle /\ SlugIdle /\ MediaIdle /\ OutIdle /\ MainIdle /\ HeadingIdle /\ RichIdle /\ PlainIdle /\ HrefIdle

\* `if toc_entries:` ... `else:`
ChoosePath ==
    /\ pc = "start"
    /\ pc' = IF toc_entries # <<>> THEN "toc" ELSE "fallback"
    /\ UNCHANGED <<docs, toc_entries, idx, sections, nav_vars, text_vars, slug_vars, media_vars, out_vars, main_vars, heading_vars, rich_vars, plain_vars, href_vars>>

\* one iteration of `for idx, entry in enumerate(toc_entries)`
TocEntryStep ==
    /\ pc = "toc"
    /\ idx <= Len(toc_entries)
    /\ LET start_idx == entry_start_idx(idx)
           end_idx == entry_end_idx(idx)
           text == IF end_idx < start_idx THEN <<>>
                   ELSE entry_chunks(idx, start_idx, end_idx)
       IN  sections' = IF keep_section(text)
                       THEN append_section(sections,
                                [label |-> toc_entries[idx].label, text |-> text])
                       ELSE sections
    /\ idx' = idx + 1
    /\ UNCHANGED <<docs, toc_entries, pc, nav_vars, text_vars, slug_vars, media_vars, out_vars, main_vars, heading_vars, rich_vars, plain_vars, href_vars>>

fallback_text(href) ==
    IF get_content_data(href) = NoContent THEN <<>>
    ELSE render_full_for_mode(get_content_data(href))

\* one iteration of `for _, href in spine_entries`
FallbackStep ==
    /\ pc = "fallback"
    /\ idx <= Len(spine_entries)
    /\ LET href == spine_entries[idx]
           text == fallback_text(href)
       IN  sections' = IF keep_section(text)
                       THEN append_section(sections,
                                [label |-> prettify_section_name(href), text |-> text])
                       ELSE sections
    /\ idx' = idx + 1
    /\ UNCHANGED <<docs, toc_entries, pc, nav_vars, text_vars, slug_vars, media_vars, out_vars, main_vars, heading_vars, rich_vars, plain_vars, href_vars>>

\* the loop is exhausted; `if not sections: return None`
Finish ==
    /\ pc \in {"toc", "fallback"}
    /\ idx > (IF pc = "toc" THEN Len(toc_entries) ELSE Len(spine_entries))
    /\ pc' = IF sections = <<>> THEN "none" ELSE "done"
    /\ UNCHANGED <<docs, toc_entries, idx, sections, nav_vars, text_vars, slug_vars, media_vars, out_vars, main_vars, heading_vars, rich_vars, plain_vars, href_vars>>

Next == ChoosePath \/ TocEntryStep \/ FallbackStep \/ Finish

Spec == Init /\ [][Next]_vars

\* Books with three readable spine documents: no TOC, or a TOC of two
\* entries, the first in a.xhtml and the second in t.xhtml, so that b.xhtml
\* lies strictly inside the range of the first entry.
CrossTocLists ==
    {<<>>} \cup
    {<<[label |-> 1, href |-> <<"a">>, fragment |-> f1, order |-> 0],
       [label |-> 2, href |-> <<"t">>, fragment |-> f2, order |-> 1]>> :
        f1 \in FragmentOrNone, f2 \in FragmentOrNone}

InitCross ==
    /\ docs \in [spine_hrefs_set -> DocShapes]
    /\ toc_entries \in CrossTocLists
    /\ pc = "start"
    /\ idx = 1
    /\ sections = <<>>
    /\ NavIdle /\ TextIdle /\ SlugIdle /\ MediaIdle /\ OutIdle /\ MainIdle /\ RichIdle /\ PlainIdle /\ HrefIdle
    /\ HeadingIdle

SpecCross == InitCross /\ [][Next]_vars

TypeOK ==
    /\ pc \in {"start", "toc", "fallback", "none", "done"}
    /\ idx \in 1..(MaxToc + 1)

-----------------------------------------------------------------------------
(* Claims about the section slicer *)

Finished == pc \in {"none", "done"}

\* C1: on the TOC path the emitted chapters follow the traversal order of the
\* TocEntry list: the labels in `sections` are labels of entries already
\* visited, strictly increasing in entry position, so no chapter is emitted
\* out of order and no entry yields two chapters.
ChaptersFollowTocOrder ==
    toc_entries # <<>> =>
        /\ \A i \in 1..Len(sections) :
               \E j \in 1..Len(toc_entries) :
                   j < idx /\ toc_entries[j].label = sections[i].label
        /\ \A i, j \in 1..Len(sections) :
               i < j => sections[i].label < sections[j].label

\* a finished run in which two entries have each yielded a chapter
ChaptersFollowTocOrderWitness ==
    /\ pc = "done"
    /\ Len(toc_entries) = 2
    /\ Len(sections) = 2
    /\ sections[1].label = 1
    /\ sections[2].label = 2

\* C2: the node sets of one content document rendered into two different
\* emitted chapters are disjoint.
RenderedRangesDisjoint ==
    \A i, j \in 1..Len(sections) :
        i # j => Range(sections[i].text) \cap Range(sections[j].text) = {}

Readable(href) ==
    \/ docs[href].kind = "notree"
    \/ docs[href].kind = "tree" /\ docs[href].n > 0

\* C3 as stated: with an empty TocEntry list the finished run has one chapter
\* per spine document.
FallbackOneChapterPerSpineDocument ==
    (Finished /\ toc_entries = <<>>) =>
        /\ Len(sections) = Len(spine_entries)
        /\ \A i \in 1..Len(sections) :
               sections[i].label = prettify_section_name(spine_entries[i])

\* C3 amended: with an empty TocEntry list the finished run has exactly one
\* chapter for every spine document that loads and renders to non-empty
\* text, in spine order, and none for the others.
FallbackOneChapterPerReadableDocument ==
    (Finished /\ toc_entries = <<>>) =>
        LET readable == SelectSeq(spine_entries, Readable)
        IN  /\ Len(sections) = Len(readable)
            /\ \A i \in 1..Len(sections) :
                   /\ sections[i].label = prettify_section_name(readable[i])
                   /\ sections[i].text # <<>>
                   /\ \A k \in 1..Len(sections[i].text) :
                          sections[i].text[k][1] = readable[i]

\* a finished fallback run in which one spine document yields no chapter
FallbackWitness ==
    /\ pc = "done"
    /\ toc_entries = <<>>
    /\ Len(sections) = 1
    /\ sections[1].label = <<"B">>
    /\ docs[<<"a">>].kind = "tree"

ScenarioToc ==
    /\ Len(toc_entries) = 2
    /\ toc_entries[1].href = <<"a">> /\ toc_entries[1].fragment = S1
    /\ toc_entries[2].href = <<"b">> /\ toc_entries[2].fragment = S2
    /\ docs[<<"a">>].kind = "tree" /\ docs[<<"a">>].top[S1] > 0
    /\ docs[<<"b">>].kind = "tree" /\ docs[<<"b">>].top[S2] > 0

\* C4 as stated: for the TOC [(Ch1, a.xhtml#s1), (Ch2, b.xhtml#s2)] chapter 1
\* is a.xhtml from #s1 to its end with nothing of b.xhtml, and chapter 2 is
\* b.xhtml from #s2 onward.
ScenarioChapterOneStopsAtEndOfA ==
    (Finished /\ ScenarioToc) =>
        /\ Len(sections) = 2
        /\ sections[1].text = Children(<<"a">>, docs[<<"a">>].top[S1],
                                       docs[<<"a">>].n)
        /\ sections[2].text = Children(<<"b">>, docs[<<"b">>].top[S2],
                                       docs[<<"b">>].n)

\* C4 amended: chapter 1 is the top-level body children of a.xhtml from the
\* one holding #s1 to the end, followed by the top-level body children of
\* b.xhtml before the one holding #s2; chapter 2 is the top-level body
\* children of b.xhtml from the one holding #s2 onward.
ScenarioChapterOneRunsUpToS2 ==
    (Finished /\ ScenarioToc) =>
        /\ Len(sections) = 2
        /\ sections[1].label = 1 /\ sections[2].label = 2
        /\ sections[1].text =
               [k \in 1..(docs[<<"a">>].n - docs[<<"a">>].top[S1] + 1) |->
                   <<<<"a">>, docs[<<"a">>].top[S1] + k - 1>>]
               \o [k \in 1..(docs[<<"b">>].top[S2] - 1) |-> <<<<"b">>, k>>]
        /\ sections[2].text =
               [k \in 1..(docs[<<"b">>].n - docs[<<"b">>].top[S2] + 1) |->
                   <<<<"b">>, docs[<<"b">>].top[S2] + k - 1>>]

\* the scenario finished with #s2 in the second top-level child of b.xhtml
ScenarioWitness ==
    /\ pc = "done"
    /\ ScenarioToc
    /\ docs[<<"b">>].top[S2] = 2
    /\ Len(sections) = 2

\* C14: a spine document that did not parse into a tree is rendered from its
\* raw markup into the chapter of every TocEntry that starts in it and whose
\* range is not closed in that same document, with or without a fragment.
ParseFailureStillRendered ==
    (Finished /\ toc_entries # <<>>) =>
        \A i \in 1..Len(toc_entries) :
            LET href == toc_entries[i].href
            IN  (/\ docs[href].kind = "notree"
                 /\ (HasNext(i) => entry_end_idx(i) > entry_start_idx(i)))
                => \E s \in 1..Len(sections) :
                       /\ sections[s].label = toc_entries[i].label
                       /\ <<href, 0>> \in Range(sections[s].text)

\* the entry and its documents are as C16 takes them to be: the start
\* document is a tree that holds the start anchor under a top-level child,
\* the document between is loaded, and the next entry's anchor, when it has
\* a fragment, lies under a top-level child of the end document
CrossEntry ==
    /\ Len(toc_entries) = 2
    /\ toc_entries[1].href = <<"a">> /\ toc_entries[2].href = <<"t">>
    /\ toc_entries[1].fragment # NoFragment
    /\ docs[<<"a">>].kind = "tree"
    /\ docs[<<"a">>].top[toc_entries[1].fragment] > 0
    /\ docs[<<"b">>].kind # "unloadable"
    /\ toc_entries[2].fragment # NoFragment =>
           /\ docs[<<"t">>].kind = "tree"
           /\ docs[<<"t">>].top[toc_entries[2].fragment] > 0

\* what C16 says the chapter of the first entry is
CrossChapter ==
    LET a == docs[<<"a">>]
        b == docs[<<"b">>]
        t == docs[<<"t">>]
        f1 == toc_entries[1].fragment
        f2 == toc_entries[2].fragment
    IN  [k \in 1..(a.n - a.top[f1] + 1) |-> <<<<"a">>, a.top[f1] + k - 1>>]
        \o (IF b.kind = "tree" THEN [k \in 1..b.n |-> <<<<"b">>, k>>]
            ELSE <<<<<<"b">>, 0>>>>)
        \o (IF f2 = NoFragment THEN <<>>
            ELSE [k \in 1..(t.top[f2] - 1) |-> <<<<"t">>, k>>])

====
